---- MODULE Spec2Model ----
(***************************************************************************)
(* Oracle-matrix construction (Bernstein-Vazirani, Deutsch-Jozsa, Simon)   *)
(* and the classical Simon equation solver of the cs239 repository.        *)
(*                                                                         *)
(* SpecOracle: one algorithm instance is constructed; __apply_uf builds    *)
(*             the oracle matrix entry by entry and appends it to the      *)
(*             circuit.                                                    *)
(* SpecSolver: simon_eqns_solver runs over one equation list, candidate by *)
(*             candidate.                                                  *)
(***************************************************************************)
EXTENDS Integers, Sequences, FiniteSets, TLC

VARIABLES
    pc,       \* position of the running call
    cls,      \* class of the instance: "BernsteinVazirani", "DeutschJozsa", "Simon", or "none"
    n,        \* self.n, or the solver's argument n
    f,        \* self.f as a table over 0..2^n-1
    uf,       \* self.uf (None until the gate is defined)
    circuit,  \* self.circuit: the gates appended so far
    U_f,      \* local matrix of __apply_uf
    x,        \* loop variable x of __apply_uf
    b,        \* loop variable b of __apply_uf
    eqns,     \* the solver's argument eqns
    ti,       \* position of the loop of simon_eqns_solver in tgts[1:]
    result,   \* value returned by simon_eqns_solver (None while running)
    zf,       \* Grover: self.zf (None until the gate is defined)
    z0,       \* Grover: self.z0 (None until the gate is defined)
    Z_f,      \* local matrix of Grover.__apply_zf
    gi,       \* number of completed iterations of the loop of Grover.__apply_g
    iteration,       \* Grover: self.iteration
    max_iterations,  \* Grover: self.max_iterations
    time_taken,      \* Grover: self.time_taken (0, or 1 for a time reported by the backend)
    jobs,     \* backend executions (self.backend.run) since the pending call of run() began
    ret,      \* first component of the value returned by the last run() (None before)
    log,      \* the return values of the calls of run() completed before the current one
    fcalls,   \* evaluations of self.f made by __apply_zf
    frames    \* call frames of the concurrently running invocations

vars == <<pc, cls, n, f, uf, circuit, U_f, x, b, eqns, ti, result,
          zf, z0, Z_f, gi, iteration, max_iterations, time_taken, jobs, ret, log, fcalls,
          frames>>

solverVars == <<eqns, ti, result>>

groverVars == <<zf, z0, Z_f, gi, iteration, max_iterations, time_taken, jobs, ret, log, fcalls>>

(***************************************************************************)
(* Bounds of the model.                                                    *)
(***************************************************************************)
\* largest n of an algorithm instance
MaxN == 2
\* oracle tables are enumerated exhaustively while a table has at most this many bits
MaxTableBits == 8
\* largest n handed to the solver
SolverMaxN == 3
\* longest equation list handed to the solver
MaxEqns == 3
\* largest n for which an equation wider than n bits is handed to the solver
WideMaxN == 2
\* largest multiple m of 2^n added to an equation
MaxHigh == 1
\* largest n of a Grover instance
GroverMaxN == 3
\* largest max_iterations handed to Grover besides the default
MaxIter == 1

(***************************************************************************)
(* Python values and integer operators.                                    *)
(***************************************************************************)
None == <<>>

\* the fields of a Grover instance and the call frames, where there are none
NoGrover ==
    /\ zf = None
    /\ z0 = None
    /\ Z_f = None
    /\ gi = 0
    /\ iteration = 0
    /\ max_iterations = 0
    /\ time_taken = 0
    /\ jobs = 0
    /\ ret = None
    /\ log = {}
    /\ fcalls = 0

NoFrames == frames = <<>>

Pow2(k) == 2 ^ k

\* x << k
Shl(a, k) == a * Pow2(k)

RECURSIVE Xor(_, _)
\* a ^ b on non-negative integers
Xor(a, c) ==
    IF a = 0 THEN c
    ELSE IF c = 0 THEN a
    ELSE (((a % 2) + (c % 2)) % 2) + (2 * Xor(a \div 2, c \div 2))

RECURSIVE And(_, _)
\* a & b on non-negative integers
And(a, c) ==
    IF a = 0 \/ c = 0 THEN 0
    ELSE ((a % 2) * (c % 2)) + (2 * And(a \div 2, c \div 2))

\* min(a, c)
Min(a, c) == IF a <= c THEN a ELSE c

\* np.zeros((size,) * 2, dtype=int)
Zeros(size) == [r \in 0..(size - 1) |-> [c \in 0..(size - 1) |-> 0]]

RECURSIVE Reversed(_)
\* qubits[::-1]
Reversed(s) == IF s = <<>> THEN <<>> ELSE Append(Reversed(Tail(s)), Head(s))

\* list(range(k))
Range(k) == [i \in 1..k |-> i - 1]

(***************************************************************************)
(* Oracle functions handed to the constructors.                            *)
(***************************************************************************)
SingleBit == {"BernsteinVazirani", "DeutschJozsa"}

\* simon_fn of main.py: min(x, x ^ s)
simon_fn(a, s) == Min(a, Xor(a, s))

RECURSIVE Bin(_)
\* "{0:b}".format(k): the binary digits of k >= 0, most significant first
Bin(k) == IF k < 2 THEN <<k>> ELSE Append(Bin(k \div 2), k % 2)

RECURSIVE DigitSum(_)
\* sum([int(i) for i in s])
DigitSum(s) == IF s = <<>> THEN 0 ELSE Head(s) + DigitSum(Tail(s))

\* mult_bstrings of main.py: parity of x & y
mult_bstrings(a, c) == DigitSum(Bin(And(a, c))) % 2

\* every f: [0,2^k) -> {0,1} while the table is small, else the shapes main.py tests
SingleBitTables(k) ==
    IF Pow2(k) <= MaxTableBits
    THEN [0..(Pow2(k) - 1) -> {0, 1}]
    ELSE {[a \in 0..(Pow2(k) - 1) |-> c] : c \in {0, 1}}
         \cup {[a \in 0..(Pow2(k) - 1) |-> Xor(mult_bstrings(s, a), c)] :
                  s \in 0..(Pow2(k) - 1), c \in {0, 1}}
         \cup {[a \in 0..(Pow2(k) - 1) |-> IF a = s THEN 1 ELSE 0] : s \in 0..(Pow2(k) - 1)}

\* every f: [0,2^k) -> [0,2^k) while the table is small, else the shapes main.py
\* tests (simon_fn for every s, s = 0 being injective) and the constant tables
SimonTables(k) ==
    IF k * Pow2(k) <= MaxTableBits
    THEN [0..(Pow2(k) - 1) -> 0..(Pow2(k) - 1)]
    ELSE {[a \in 0..(Pow2(k) - 1) |-> simon_fn(a, s)] : s \in 0..(Pow2(k) - 1)}
         \cup {[a \in 0..(Pow2(k) - 1) |-> c] : c \in 0..(Pow2(k) - 1)}
         \cup {[a \in 0..(Pow2(k) - 1) |-> And(a, s)] : s \in 0..(Pow2(k) - 1)}

(***************************************************************************)
(* Initial state of SpecOracle: __init__ has stored n, f and uf = None and *)
(* is about to call __construct.                                           *)
(***************************************************************************)
InitOracle ==
    /\ pc = "construct"
    /\ cls \in SingleBit \cup {"Simon"}
    /\ n \in 1..MaxN
    /\ f \in (IF cls \in SingleBit THEN SingleBitTables(n) ELSE SimonTables(n))
    /\ uf = None
    /\ circuit = None
    /\ U_f = None
    /\ x = 0
    /\ b = 0
    /\ eqns = <<>>
    /\ ti = 0
    /\ result = None
    /\ NoGrover
    /\ NoFrames

\* number of qubits of the circuit
total_qubits == IF cls = "Simon" THEN 2 * n ELSE n + 1

\* __construct up to the call of __apply_uf: the circuit is created, the helper
\* bit is set (single-bit oracles) and the Hadamard layer is applied
construct_begin ==
    /\ pc = "construct"
    /\ circuit' =
          IF cls = "Simon"
          THEN [q \in 1..n |-> <<"h", q - 1>>]
          ELSE <<(<<"x", n>>)>> \o [q \in 1..total_qubits |-> <<"h", q - 1>>]
    /\ pc' = "apply_uf"
    /\ UNCHANGED <<cls, n, f, uf, U_f, x, b>>
    /\ UNCHANGED <<solverVars, groverVars, frames>>

\* __apply_uf, entry: the matrix is allocated only when self.uf is None
apply_uf_begin ==
    /\ pc = "apply_uf"
    /\ IF uf = None
       THEN /\ U_f' = Zeros(IF cls = "Simon" THEN Pow2(n * 2) ELSE Pow2(n + 1))
            /\ x' = 0
            /\ b' = 0
            /\ pc' = "uf_loop"
            /\ UNCHANGED circuit
       ELSE /\ circuit' = Append(circuit, <<"uf", Reversed(Range(total_qubits))>>)
            /\ pc' = "construct_end"
            /\ UNCHANGED <<U_f, x, b>>
    /\ UNCHANGED <<cls, n, f, uf>>
    /\ UNCHANGED <<solverVars, groverVars, frames>>

\* row = (x << 1) ^ b
bv_row(xx, bb) == Xor(Shl(xx, 1), bb)

\* faulty column: the helper bit b is dropped
bv_col_drop_b(xx, bb, fx) == Xor(Shl(xx, 1), fx)

\* faulty column: f(x) is dropped
bv_col_drop_f(xx, bb, fx) == Xor(Shl(xx, 1), bb)

\* col = (x << 1) ^ (self.f(x) ^ b)
bv_col(xx, bb, fx) == Xor(Shl(xx, 1), Xor(fx, bb))

\* one iteration of "for x in range(2 ** self.n): for b in [0, 1]"
bv_apply_uf_step ==
    /\ pc = "uf_loop"
    /\ cls \in SingleBit
    /\ U_f' = [U_f EXCEPT ![bv_row(x, b)][bv_col(x, b, f[x])] = 1]
    /\ IF b = 0
       THEN /\ b' = 1
            /\ UNCHANGED <<x, pc>>
       ELSE IF x + 1 < Pow2(n)
       THEN /\ x' = x + 1
            /\ b' = 0
            /\ UNCHANGED pc
       ELSE /\ pc' = "uf_store"
            /\ UNCHANGED <<x, b>>
    /\ UNCHANGED <<cls, n, f, uf, circuit>>
    /\ UNCHANGED <<solverVars, groverVars, frames>>

\* faulty row: the single-bit shift x << 1 is kept
simon_row_shift1(xx, bb, k) == Xor(Shl(xx, 1), bb)

\* row = (x << self.n) ^ b
simon_row(xx, bb, k) == Xor(Shl(xx, k), bb)

\* faulty column: b + f(x) is an addition modulo 2^n instead of an exclusive or
simon_col_add(xx, bb, fx, k) == Xor(Shl(xx, k), (fx + bb) % Pow2(k))

\* col = (x << self.n) ^ (self.f(x) ^ b)
simon_col(xx, bb, fx, k) == Xor(Shl(xx, k), Xor(fx, bb))

\* one iteration of "for x in range(f_size): for b in range(f_size)"
simon_apply_uf_step ==
    /\ pc = "uf_loop"
    /\ cls = "Simon"
    /\ U_f' = [U_f EXCEPT ![simon_row(x, b, n)][simon_col(x, b, f[x], n)] = 1]
    /\ IF b + 1 < Pow2(n)
       THEN /\ b' = b + 1
            /\ UNCHANGED <<x, pc>>
       ELSE IF x + 1 < Pow2(n)
       THEN /\ x' = x + 1
            /\ b' = 0
            /\ UNCHANGED pc
       ELSE /\ pc' = "uf_store"
            /\ UNCHANGED <<x, b>>
    /\ UNCHANGED <<cls, n, f, uf, circuit>>
    /\ UNCHANGED <<solverVars, groverVars, frames>>

\* self.uf = Operator(U_f), then the gate is appended on the reversed qubits
apply_uf_store ==
    /\ pc = "uf_store"
    /\ uf' = U_f
    /\ circuit' = Append(circuit, <<"uf", Reversed(Range(total_qubits))>>)
    /\ U_f' = None
    /\ x' = 0
    /\ b' = 0
    /\ pc' = "construct_end"
    /\ UNCHANGED <<cls, n, f>>
    /\ UNCHANGED <<solverVars, groverVars, frames>>

\* __construct after __apply_uf: Hadamard and measurement on the first n qubits
construct_end ==
    /\ pc = "construct_end"
    /\ circuit' = circuit \o [q \in 1..n |-> <<"h", q - 1>>]
                          \o [q \in 1..n |-> <<"measure", q - 1>>]
    /\ pc' = "ready"
    /\ UNCHANGED <<cls, n, f, uf, U_f, x, b>>
    /\ UNCHANGED <<solverVars, groverVars, frames>>

NextOracle ==
    \/ construct_begin
    \/ apply_uf_begin
    \/ bv_apply_uf_step
    \/ simon_apply_uf_step
    \/ apply_uf_store
    \/ construct_end

SpecOracle == InitOracle /\ [][NextOracle]_vars

(***************************************************************************)
(* Properties of the oracle matrix.                                        *)
(***************************************************************************)
\* dimension of the oracle matrix of the instance
uf_size == IF cls = "Simon" THEN Pow2(2 * n) ELSE Pow2(n + 1)

\* width of the helper register and the helper values
helper_bits == IF cls = "Simon" THEN n ELSE 1
Helpers == 0..(Pow2(helper_bits) - 1)
Inputs == 0..(Pow2(n) - 1)

\* index of basis state |x>|b>
encode(xx, bb) == Xor(Shl(xx, helper_bits), bb)

\* positions of the entries equal to 1
Ones(M) == {rc \in (DOMAIN M) \X (DOMAIN M) : M[rc[1]][rc[2]] = 1}

IsPermutationMatrix(M, size) ==
    /\ DOMAIN M = 0..(size - 1)
    /\ \A r \in 0..(size - 1) : DOMAIN M[r] = 0..(size - 1)
    /\ \A r, c \in 0..(size - 1) : M[r][c] \in {0, 1}
    /\ \A r \in 0..(size - 1) : Cardinality({c \in 0..(size - 1) : M[r][c] = 1}) = 1
    /\ \A c \in 0..(size - 1) : Cardinality({r \in 0..(size - 1) : M[r][c] = 1}) = 1

\* C1: for every n >= 1 and every f: [0,2^n) -> {0,1}, the single-bit oracle matrix
\* built by __apply_uf is a 2^(n+1) x 2^(n+1) permutation matrix: every row and
\* every column holds exactly one 1 and zeros elsewhere.
C1_SingleBitPermutation ==
    (cls \in SingleBit /\ uf # None) => IsPermutationMatrix(uf, Pow2(n + 1))

\* a Deutsch-Jozsa oracle that is neither constant nor balanced has been built
C1_Witness ==
    /\ cls = "DeutschJozsa"
    /\ pc = "ready"
    /\ uf # None
    /\ n = 2
    /\ Cardinality({a \in DOMAIN f : f[a] = 1}) = 1

\* the oracle of the Bernstein-Vazirani scenario, f = [1, 0, 0, 1]
BVExample == [a \in 0..3 |-> IF a \in {0, 3} THEN 1 ELSE 0]

\* C2: the single-bit oracle matrix has M[r][c] = 1 exactly when r = (x<<1) XOR b
\* and c = (x<<1) XOR (f(x) XOR b) for some x in [0,2^n) and b in {0,1}, and 0
\* elsewhere, so it has exactly 2^(n+1) ones; for n = 2 and f = [1,0,0,1] these
\* are the 8 traced positions.
C2_SingleBitEntries ==
    (cls \in SingleBit /\ uf # None) =>
        /\ \A r, c \in 0..(Pow2(n + 1) - 1) :
              uf[r][c] = IF \E xx \in 0..(Pow2(n) - 1), bb \in {0, 1} :
                               /\ r = Xor(Shl(xx, 1), bb)
                               /\ c = Xor(Shl(xx, 1), Xor(f[xx], bb))
                         THEN 1 ELSE 0
        /\ Cardinality(Ones(uf)) = Pow2(n + 1)
        /\ (n = 2 /\ f = BVExample) =>
              Ones(uf) = {<<0, 1>>, <<1, 0>>, <<2, 2>>, <<3, 3>>,
                          <<4, 4>>, <<5, 5>>, <<6, 7>>, <<7, 6>>}

\* the Bernstein-Vazirani scenario oracle has been built
C2_Witness ==
    /\ cls = "BernsteinVazirani"
    /\ pc = "ready"
    /\ n = 2
    /\ f = BVExample
    /\ uf # None
    /\ uf[6][7] = 1

\* C3: for every n >= 1 and every f: [0,2^n) -> [0,2^n), injective or not, the
\* two-register oracle matrix of dimension 2^(2n) has M[r][c] = 1 exactly when
\* r = (x<<n) XOR b and c = (x<<n) XOR (f(x) XOR b) for some x, b in [0,2^n), and it
\* is a permutation matrix.
C3_SimonEntries ==
    (cls = "Simon" /\ uf # None) =>
        /\ \A r, c \in 0..(Pow2(2 * n) - 1) :
              uf[r][c] = IF \E xx, bb \in 0..(Pow2(n) - 1) :
                               /\ r = Xor(Shl(xx, n), bb)
                               /\ c = Xor(Shl(xx, n), Xor(f[xx], bb))
                         THEN 1 ELSE 0
        /\ IsPermutationMatrix(uf, Pow2(2 * n))

\* a Simon oracle for a three-to-one f, which breaks Simon's promise, has been built
C3_Witness ==
    /\ cls = "Simon"
    /\ pc = "ready"
    /\ n = 2
    /\ uf # None
    /\ f[0] = f[1]
    /\ f[1] = f[2]
    /\ f[3] # f[0]

\* C4: the oracle matrix is an involution on basis indices: the only 1 of row
\* encode(x,b) is in column encode(x, f(x) XOR b), and the only 1 of that row is
\* in column encode(x,b) again, for the single-bit and the n-bit-helper oracle.
C4_Involution ==
    (uf # None) =>
        \A xx \in Inputs, bb \in Helpers :
            LET r == encode(xx, bb)
                c == encode(xx, Xor(f[xx], bb))
            IN /\ {k \in 0..(uf_size - 1) : uf[r][k] = 1} = {c}
               /\ {k \in 0..(uf_size - 1) : uf[c][k] = 1} = {r}

\* a Simon oracle that moves some basis state has been built
C4_Witness ==
    /\ cls = "Simon"
    /\ pc = "ready"
    /\ n = 2
    /\ uf # None
    /\ f[1] = 3
    /\ uf[encode(1, 2)][encode(1, 1)] = 1

(***************************************************************************)
(* The classical part of Simon's algorithm (simon.py).                     *)
(***************************************************************************)
\* faulty conjunction: the exclusive or of e and tgt
int_and_xor(e, tgt) == Xor(e, tgt)

\* int_and = (e&tgt)
int_and(e, tgt) == And(e, tgt)

\* str_and = "{0:b}".format(int_and); sum_and = sum([int(i) for i in str_and])
sum_and(e, tgt) == DigitSum(Bin(int_and(e, tgt)))

RECURSIVE check_eqns_from(_, _, _)
\* the loop of simon_check_eqns from position i on: False at the first equation
\* of odd parity, True when the list is exhausted
check_eqns_from(E, tgt, i) ==
    IF i > Len(E) THEN TRUE
    ELSE IF sum_and(E[i], tgt) % 2 # 0 THEN FALSE
    ELSE check_eqns_from(E, tgt, i + 1)

\* faulty check: True is returned inside the loop, after the first equation
simon_check_eqns_first(E, tgt) ==
    IF Len(E) = 0 THEN TRUE ELSE sum_and(E[1], tgt) % 2 = 0

\* faulty check: the sum is not reduced modulo 2
simon_check_eqns_nomod(E, tgt) ==
    \A i \in 1..Len(E) : sum_and(E[i], tgt) = 0

\* simon_check_eqns(eqns, tgt)
simon_check_eqns(E, tgt) == check_eqns_from(E, tgt, 1)

\* faulty candidate list: 2 ** (n + 1) candidates
tgts_wide(k) == Range(Pow2(k + 1))

\* tgts = list(range(2**n))
tgts(k) == Range(Pow2(k))

\* faulty slice: candidate 0 is kept
candidates_all(k) == tgts(k)

\* faulty order: the candidates are tried from the largest down
candidates_desc(k) == Reversed(Tail(tgts(k)))

\* tgts[1:]
candidates(k) == Tail(tgts(k))

RECURSIVE solver_from(_, _, _)
\* the loop "for t in tgts[1:]" of simon_eqns_solver from position i on
solver_from(E, k, i) ==
    IF i > Len(candidates(k)) THEN 0
    ELSE IF simon_check_eqns(E, candidates(k)[i]) THEN candidates(k)[i]
    ELSE solver_from(E, k, i + 1)

\* simon_eqns_solver(eqns, n), as a function of its arguments
simon_eqns_solver(E, k) == solver_from(E, k, 1)

\* the equation lists of at most MaxEqns n-bit equations
NarrowLists(k) == UNION {[1..len -> 0..(Pow2(k) - 1)] : len \in 0..MaxEqns}

\* the lists in which one equation e is replaced by e + m * 2^n
WideLists(k) ==
    UNION {{[E EXCEPT ![i] = E[i] + m * Pow2(k)] : i \in DOMAIN E, m \in 1..MaxHigh} :
              E \in NarrowLists(k)}

\* simon_eqns_solver(eqns, n) has been called
InitSolver ==
    /\ pc = "solver"
    /\ cls = "none"
    /\ n \in 1..SolverMaxN
    /\ eqns \in NarrowLists(n) \cup (IF n <= WideMaxN THEN WideLists(n) ELSE {})
    /\ ti = 0
    /\ result = None
    /\ f = None
    /\ uf = None
    /\ circuit = None
    /\ U_f = None
    /\ x = 0
    /\ b = 0
    /\ NoGrover
    /\ NoFrames

\* the candidate under test, t
t == candidates(n)[ti]

\* tgts is built and the loop over tgts[1:] is entered, or left at once when
\* the slice is empty
solver_begin ==
    /\ pc = "solver"
    /\ IF Len(candidates(n)) = 0
       THEN /\ result' = 0
            /\ pc' = "returned"
            /\ UNCHANGED ti
       ELSE /\ ti' = 1
            /\ pc' = "solver_loop"
            /\ UNCHANGED result
    /\ UNCHANGED <<eqns, n>>
    /\ UNCHANGED <<cls, f, uf, circuit, U_f, x, b, groverVars, frames>>

\* one iteration of "for t in tgts[1:]": t is returned when it satisfies every
\* equation; after the last candidate 0 is returned
solver_step ==
    /\ pc = "solver_loop"
    /\ IF simon_check_eqns(eqns, t)
       THEN /\ result' = t
            /\ pc' = "returned"
            /\ UNCHANGED ti
       ELSE IF ti < Len(candidates(n))
       THEN /\ ti' = ti + 1
            /\ UNCHANGED <<result, pc>>
       ELSE /\ result' = 0
            /\ pc' = "returned"
            /\ UNCHANGED ti
    /\ UNCHANGED <<eqns, n>>
    /\ UNCHANGED <<cls, f, uf, circuit, U_f, x, b, groverVars, frames>>

NextSolver ==
    \/ solver_begin
    \/ solver_step

SpecSolver == InitSolver /\ [][NextSolver]_vars

(***************************************************************************)
(* Properties of the solver.                                               *)
(***************************************************************************)
RECURSIVE popcount(_)
\* number of 1 bits of k >= 0
popcount(k) == IF k = 0 THEN 0 ELSE (k % 2) + popcount(k \div 2)

\* tt satisfies every equation of E: popcount(e AND tt) is even
Satisfies(E, tt) == \A i \in DOMAIN E : popcount(And(E[i], tt)) % 2 = 0

\* the nonzero n-bit strings that satisfy every equation of E
Solutions(E, k) == {tt \in 1..(Pow2(k) - 1) : Satisfies(E, tt)}

\* the least element of a non-empty set of integers
Least(S) == CHOOSE m \in S : \A o \in S : m <= o

RECURSIVE SpanUpTo(_, _)
\* the GF(2) span of the first i equations of E
SpanUpTo(E, i) ==
    IF i = 0 THEN {0}
    ELSE LET S == SpanUpTo(E, i - 1) IN S \cup {Xor(v, E[i]) : v \in S}

Span(E) == SpanUpTo(E, Len(E))

\* every equation of E is an n-bit vector
Narrow(E, k) == \A i \in DOMAIN E : E[i] < Pow2(k)

\* C5: simon_eqns_solver(eqns, n) returns the smallest t in [1, 2^n - 1] with
\* popcount(e AND t) even for every equation e, returns 0 exactly when there is no
\* such t, and never tests candidate 0.
C5_SmallestSolution ==
    /\ pc = "solver_loop" => t \in 1..(Pow2(n) - 1)
    /\ pc = "returned" =>
          LET S == Solutions(eqns, n)
          IN /\ (result = 0) <=> (S = {})
             /\ S # {} => result = Least(S)

\* several candidates fit and the smallest of them, which is not 1, was returned
C5_Witness ==
    /\ pc = "returned"
    /\ n = 3
    /\ eqns = <<3>>
    /\ result = 3
    /\ Cardinality(Solutions(eqns, n)) = 3

\* the equations of the worked example, [0b110, 0b011, 0b101]
C6Example == <<6, 3, 5>>

\* C6 as stated: given n = 3 and equations [0b110, 0b011, 0b101] the solver
\* returns 0b110.
C6_Original ==
    (pc = "returned" /\ n = 3 /\ eqns = C6Example) => result = 6

\* C6: given n = 3 and equations [0b110, 0b011, 0b101] the solver returns 0b111,
\* the only nonzero string orthogonal to all three equations.
C6_ExampleReturns7 ==
    (pc = "returned" /\ n = 3 /\ eqns = C6Example) =>
        /\ result = 7
        /\ Solutions(eqns, n) = {7}

\* the solver has returned on the worked example
C6_Witness ==
    /\ pc = "returned"
    /\ n = 3
    /\ eqns = C6Example
    /\ result = 7

\* C7: for every nonzero s in [1, 2^n - 1] and every list of n-bit equations that
\* are all orthogonal to s and span a subspace of rank n-1, the solver returns s.
C7_RankDeficientByOne ==
    (pc = "returned" /\ Narrow(eqns, n) /\ Cardinality(Span(eqns)) = Pow2(n - 1)) =>
        \A s \in 1..(Pow2(n) - 1) : Satisfies(eqns, s) => result = s

\* the solver has recovered s = 0b110 from the nonzero vectors orthogonal to it
C7_Witness ==
    /\ pc = "returned"
    /\ n = 3
    /\ eqns = <<6, 1, 7>>
    /\ Cardinality(Span(eqns)) = 4
    /\ Satisfies(eqns, 6)
    /\ result = 6

\* C8: when the n-bit equations span all of GF(2)^n the solver returns 0.
C8_FullRankReturns0 ==
    (pc = "returned" /\ Narrow(eqns, n) /\ Cardinality(Span(eqns)) = Pow2(n)) =>
        result = 0

\* the solver has returned 0 on three independent 3-bit equations
C8_Witness ==
    /\ pc = "returned"
    /\ n = 3
    /\ eqns = <<3, 5, 4>>
    /\ Cardinality(Span(eqns)) = 8
    /\ result = 0

\* C9: when every equation is 0, or the list is empty, the solver returns 1.
C9_AllZeroReturns1 ==
    (pc = "returned" /\ \A i \in DOMAIN eqns : eqns[i] = 0) => result = 1

\* the solver has returned 1 on [0, 0, 0]
C9_Witness ==
    /\ pc = "returned"
    /\ n = 3
    /\ eqns = <<0, 0, 0>>
    /\ result = 1

\* E with the bits at positions >= k of every equation cleared
LowBits(E, k) == [i \in DOMAIN E |-> E[i] % Pow2(k)]

\* C10: the solver ignores the bits at positions >= n of every equation: its result
\* on a list is the one determined by the list with every e replaced by e mod 2^n,
\* and also when some e >= 2^n the call is never stuck before it returns.
C10_HighBitsIgnored ==
    /\ pc = "returned" =>
          /\ result \in 0..(Pow2(n) - 1)
          /\ LET S == Solutions(LowBits(eqns, n), n)
             IN result = IF S = {} THEN 0 ELSE Least(S)
    /\ pc # "returned" => (pc = "solver" \/ (pc = "solver_loop" /\ ti \in DOMAIN candidates(n)))

\* the solver has returned on [0b111] with n = 2, an equation wider than n bits,
\* with the result of the list [0b11]
C10_Witness ==
    /\ pc = "returned"
    /\ n = 2
    /\ eqns = <<7>>
    /\ result = 3

(***************************************************************************)
(* Grover (grover.py): construction of the circuit and run().              *)
(***************************************************************************)
\* max_iterations=5, the default of Grover.__init__
max_iterations_default == 5

\* the oracles of a Grover instance: every f: [0,2^k) -> {0,1} below the largest
\* n, the shapes of SingleBitTables at the largest n
GroverTables(k) ==
    IF k < GroverMaxN
    THEN [0..(Pow2(k) - 1) -> {0, 1}]
    ELSE {[a \in 0..(Pow2(k) - 1) |-> c] : c \in {0, 1}}
         \cup {[a \in 0..(Pow2(k) - 1) |-> mult_bstrings(s, a)] : s \in 0..(Pow2(k) - 1)}
         \cup {[a \in 0..(Pow2(k) - 1) |-> IF a = s THEN 1 ELSE 0] : s \in 0..(Pow2(k) - 1)}

\* __init__ has stored its arguments, iteration = 0, time_taken = 0, zf = z0 = None
\* and is about to call __construct
InitGrover ==
    /\ pc = "g_construct"
    /\ cls = "Grover"
    /\ n \in 1..GroverMaxN
    /\ f \in GroverTables(n)
    /\ max_iterations \in (0..MaxIter) \cup {max_iterations_default}
    /\ iteration = 0
    /\ time_taken = 0
    /\ zf = None
    /\ z0 = None
    /\ Z_f = None
    /\ gi = 0
    /\ jobs = 0
    /\ ret = None
    /\ log = {}
    /\ fcalls = 0
    /\ uf = None
    /\ circuit = None
    /\ U_f = None
    /\ x = 0
    /\ b = 0
    /\ eqns = <<>>
    /\ ti = 0
    /\ result = None
    /\ NoFrames

\* k = int(np.floor(np.pi / 4 * np.sqrt(2 ** total_qubits))): the k >= 0 with
\* 16 k^2 <= pi^2 2^n < 16 (k+1)^2, pi^2 taken as 9.8696
grover_k(nq) ==
    CHOOSE k \in 0..Pow2(nq) :
        /\ 16 * k * k * 10000 <= 98696 * Pow2(nq)
        /\ 16 * (k + 1) * (k + 1) * 10000 > 98696 * Pow2(nq)

\* for q in qubits: self.circuit.h(q)
HLayer(nq) == [q \in 1..nq |-> <<"h", q - 1>>]

\* np.eye(size)
Eye(size) == [r \in 0..(size - 1) |-> [c \in 0..(size - 1) |-> IF r = c THEN 1 ELSE 0]]

\* Z_f *= -1
Negated(M) == [r \in DOMAIN M |-> [c \in DOMAIN M[r] |-> 0 - M[r][c]]]

\* faulty sign: (+1) ** f(x)
zf_entry_plus(fx) == 1

\* (-1) ** self.f(x)
zf_entry(fx) == IF fx % 2 = 0 THEN 1 ELSE -1

\* __construct up to the call of __apply_g: Hadamard on all qubits
grover_construct_begin ==
    /\ pc = "g_construct"
    /\ circuit' = HLayer(n)
    /\ gi' = 0
    /\ pc' = IF grover_k(n) > 0 THEN "g_zf" ELSE "g_measure"
    /\ UNCHANGED <<cls, n, f, uf, U_f, x, b, solverVars, frames>>
    /\ UNCHANGED <<zf, z0, Z_f, iteration, max_iterations, time_taken, jobs, ret, log, fcalls>>

\* faulty cache test: the gate is rebuilt at every application
zf_missing_always == TRUE

\* if self.zf is None
zf_missing == zf = None

\* __apply_zf, entry: the matrix is allocated only when self.zf is None; otherwise
\* the cached gate is appended, followed by the Hadamard layer of __apply_g
apply_zf_begin ==
    /\ pc = "g_zf"
    /\ IF zf_missing
       THEN /\ Z_f' = Eye(Pow2(n))
            /\ x' = 0
            /\ pc' = "zf_loop"
            /\ UNCHANGED circuit
       ELSE /\ circuit' = Append(circuit, <<"zf", zf, Reversed(Range(n))>>) \o HLayer(n)
            /\ pc' = "g_z0"
            /\ UNCHANGED <<Z_f, x>>
    /\ UNCHANGED <<cls, n, f, uf, U_f, b, solverVars, frames>>
    /\ UNCHANGED <<zf, z0, gi, iteration, max_iterations, time_taken, jobs, ret, log, fcalls>>

\* one iteration of "for x in range(2 ** self.n)": Z_f[x][x] = (-1) ** self.f(x)
apply_zf_step ==
    /\ pc = "zf_loop"
    /\ Z_f' = [Z_f EXCEPT ![x][x] = zf_entry(f[x])]
    /\ fcalls' = fcalls + 1
    /\ IF x + 1 < Pow2(n)
       THEN /\ x' = x + 1
            /\ UNCHANGED pc
       ELSE /\ pc' = "zf_store"
            /\ UNCHANGED x
    /\ UNCHANGED <<cls, n, f, uf, circuit, U_f, b, solverVars, frames>>
    /\ UNCHANGED <<zf, z0, gi, iteration, max_iterations, time_taken, jobs, ret, log>>

\* Z_f *= -1; self.zf = Operator(Z_f); the gate is appended, followed by the
\* Hadamard layer of __apply_g
apply_zf_store ==
    /\ pc = "zf_store"
    /\ zf' = Negated(Z_f)
    /\ circuit' = Append(circuit, <<"zf", Negated(Z_f), Reversed(Range(n))>>) \o HLayer(n)
    /\ Z_f' = None
    /\ x' = 0
    /\ pc' = "g_z0"
    /\ UNCHANGED <<cls, n, f, uf, U_f, b, solverVars, frames>>
    /\ UNCHANGED <<z0, gi, iteration, max_iterations, time_taken, jobs, ret, log, fcalls>>

\* faulty corner: the last diagonal entry is negated
z0_matrix_last(size) == [Eye(size) EXCEPT ![size - 1][size - 1] = -1]

\* Z_0 = np.eye(2 ** self.n); Z_0[0][0] = -1
z0_matrix(size) == [Eye(size) EXCEPT ![0][0] = -1]

\* __apply_z0: the gate is defined when self.z0 is None and appended, followed by
\* the Hadamard layer that ends one iteration of the loop of __apply_g
apply_z0 ==
    /\ pc = "g_z0"
    /\ z0' = IF z0 = None THEN z0_matrix(Pow2(n)) ELSE z0
    /\ circuit' = Append(circuit, <<"z0", z0', Reversed(Range(n))>>) \o HLayer(n)
    /\ gi' = gi + 1
    /\ pc' = IF gi + 1 < grover_k(n) THEN "g_zf" ELSE "g_measure"
    /\ UNCHANGED <<cls, n, f, uf, U_f, x, b, solverVars, frames>>
    /\ UNCHANGED <<zf, Z_f, iteration, max_iterations, time_taken, jobs, ret, log, fcalls>>

\* __construct after __apply_g: every qubit is measured
grover_construct_end ==
    /\ pc = "g_measure"
    /\ circuit' = circuit \o [q \in 1..n |-> <<"measure", q - 1>>]
    /\ pc' = "g_ready"
    /\ UNCHANGED <<cls, n, f, uf, U_f, x, b, solverVars, frames>>
    /\ UNCHANGED groverVars

\* faulty entry: a call after an earlier one starts with a fresh retry counter
iteration_at_call_reset == IF pc = "g_returned" THEN 0 ELSE iteration

\* self.iteration when run() is entered: run() does not assign it before the job
iteration_at_call == iteration

\* a caller calls run() on the constructed instance
run_call ==
    /\ pc \in {"g_ready", "g_returned"}
    /\ iteration' = iteration_at_call
    /\ log' = IF pc = "g_ready" THEN log ELSE log \cup {ret}
    /\ jobs' = 0
    /\ pc' = "g_run"
    /\ UNCHANGED <<cls, n, f, uf, circuit, U_f, x, b, solverVars, frames>>
    /\ UNCHANGED <<zf, z0, Z_f, gi, max_iterations, time_taken, ret, fcalls>>

\* run(): the job is executed and job.result() raises IBMQJobFailureError
run_job_fails ==
    /\ pc = "g_run"
    /\ jobs' = jobs + 1
    /\ ret' = -1
    /\ pc' = "g_returned"
    /\ UNCHANGED <<cls, n, f, uf, circuit, U_f, x, b, solverVars, frames>>
    /\ UNCHANGED <<zf, z0, Z_f, gi, iteration, max_iterations, time_taken, log, fcalls>>

\* faulty retry test: iteration <= max_iterations
may_retry_le == iteration <= max_iterations

\* elif self.iteration < self.max_iterations
may_retry == iteration < max_iterations

\* faulty oracle test: self.f(x) == 0
found_zero(xm) == f[xm] = 0

\* if self.f(x) == 1
found(xm) == f[xm] = 1

\* run(): the job is executed and the backend reports xm as the most common
\* measurement; 1 is returned when f(xm) == 1, else run() is called again when
\* iterations are left, else 0 is returned
run_measure ==
    /\ pc = "g_run"
    /\ \E xm \in 0..(Pow2(n) - 1) :
          /\ jobs' = jobs + 1
          /\ time_taken' = 1
          /\ IF found(xm)
             THEN /\ ret' = 1
                  /\ pc' = "g_returned"
                  /\ UNCHANGED iteration
             ELSE IF may_retry
             THEN /\ iteration' = iteration + 1
                  /\ UNCHANGED <<ret, pc>>
             ELSE /\ ret' = 0
                  /\ pc' = "g_returned"
                  /\ UNCHANGED iteration
    /\ UNCHANGED <<cls, n, f, uf, circuit, U_f, x, b, solverVars, frames>>
    /\ UNCHANGED <<zf, z0, Z_f, gi, max_iterations, log, fcalls>>

NextGrover ==
    \/ grover_construct_begin
    \/ apply_zf_begin
    \/ apply_zf_step
    \/ apply_zf_store
    \/ apply_z0
    \/ grover_construct_end
    \/ run_call
    \/ run_job_fails
    \/ run_measure

SpecGrover == InitGrover /\ [][NextGrover]_vars

(***************************************************************************)
(* Properties of Grover.                                                   *)
(***************************************************************************)
\* the oracle of the Grover scenario: n = 2, f(x) = 1 only at x = 0b10
GroverExample == [a \in 0..3 |-> IF a = 2 THEN 1 ELSE 0]

\* the diagonal matrix with the given diagonal
Diag(d) == [r \in DOMAIN d |-> [c \in DOMAIN d |-> IF r = c THEN d[r] ELSE 0]]

\* C11: Z_f is a diagonal 2^n x 2^n matrix with zeros off the diagonal whose entry
\* at x is (-1)^f(x) times one sign shared by all x; in grover.py the sign is -1
\* (+1 where f(x) = 1, -1 where f(x) = 0), so for n = 2 and f(x) = 1 only at 0b10
\* the matrix is -diag(1,1,-1,1).
C11_ZfDiagonal ==
    (cls = "Grover" /\ zf # None) =>
        /\ DOMAIN zf = 0..(Pow2(n) - 1)
        /\ \A r, c \in 0..(Pow2(n) - 1) :
              zf[r][c] = IF r # c THEN 0 ELSE IF f[r] = 1 THEN 1 ELSE -1
        /\ \E sign \in {-1, 1} :
              \A a \in 0..(Pow2(n) - 1) : zf[a][a] = sign * (IF f[a] = 1 THEN -1 ELSE 1)
        /\ (n = 2 /\ f = GroverExample) =>
              zf = Diag([a \in 0..3 |-> 0 - (IF a = 2 THEN -1 ELSE 1)])

\* the Z_f of the Grover scenario has been built
C11_Witness ==
    /\ cls = "Grover"
    /\ pc = "g_ready"
    /\ n = 2
    /\ f = GroverExample
    /\ zf # None
    /\ zf[2][2] = 1
    /\ zf[0][0] = -1

\* C12: Z_0 is the 2^n x 2^n identity matrix except that entry [0][0] is -1, for
\* every n >= 1 and whatever f is; n = 2 gives diag(-1,1,1,1).
C12_Z0Reflection ==
    (cls = "Grover" /\ z0 # None) =>
        /\ DOMAIN z0 = 0..(Pow2(n) - 1)
        /\ \A r, c \in 0..(Pow2(n) - 1) :
              z0[r][c] = IF r # c THEN 0 ELSE IF r = 0 THEN -1 ELSE 1
        /\ n = 2 => z0 = Diag([a \in 0..3 |-> IF a = 0 THEN -1 ELSE 1])

\* Z_0 has been built for n = 2 and an f that is 1 at x = 0
C12_Witness ==
    /\ cls = "Grover"
    /\ pc = "g_ready"
    /\ n = 2
    /\ f[0] = 1
    /\ z0 # None
    /\ z0[0][0] = -1
    /\ z0[3][3] = 1

\* some x in [0, 2^n) has f(x) = 1
Marked == \E a \in 0..(Pow2(n) - 1) : f[a] = 1

FirstCall == cls = "Grover" /\ pc \in {"g_run", "g_returned"} /\ log = {}

\* C14: on a freshly constructed instance run() makes at most max_iterations + 1
\* backend executions; it returns 1 at the first execution that measures an x
\* with f(x) = 1 (all earlier ones missed), and it returns 0 only after exactly
\* max_iterations + 1 executions that all missed.
C14_FreshRunBounded ==
    FirstCall =>
        /\ jobs <= max_iterations + 1
        /\ pc = "g_run" => (jobs = iteration /\ jobs <= max_iterations)
        /\ (pc = "g_returned" /\ ret = 1) => jobs = iteration + 1
        /\ (pc = "g_returned" /\ ret = 0) =>
              (jobs = max_iterations + 1 /\ iteration = max_iterations)

\* the first run() with the default budget has returned 0 after 6 executions
C14_Witness ==
    /\ FirstCall
    /\ pc = "g_returned"
    /\ max_iterations = max_iterations_default
    /\ ret = 0
    /\ jobs = 6
    /\ iteration = 5

\* C20: the retry budget belongs to the instance: iteration starts at 0, changes
\* only by +1 (on a missed measurement, inside run()), is never reset, stays in
\* 0..max_iterations, and once some run() has returned 0 every later run() returns
\* after exactly one backend execution.
C20_BudgetPerInstance ==
    /\ [](cls = "Grover" =>
            /\ iteration \in 0..max_iterations
            /\ pc \in {"g_construct", "g_zf", "zf_loop", "zf_store", "g_z0", "g_measure",
                       "g_ready"} => iteration = 0
            /\ (pc = "g_returned" /\ ret = 0) => iteration = max_iterations
            /\ 0 \in log => iteration = max_iterations
            /\ (pc = "g_returned" /\ 0 \in log) => jobs = 1
            /\ (pc = "g_run" /\ 0 \in log) => jobs = 0)
    /\ [][cls = "Grover" =>
            /\ iteration' \in {iteration, iteration + 1}
            /\ iteration' = iteration + 1 =>
                  (pc = "g_run" /\ pc' = "g_run" /\ jobs' = jobs + 1)]_vars

\* after a run() that returned 0, a later run() has returned 1 after one execution
C20_Witness ==
    /\ cls = "Grover"
    /\ pc = "g_returned"
    /\ 0 \in log
    /\ ret = 1
    /\ jobs = 1
    /\ iteration = max_iterations
    /\ max_iterations = max_iterations_default

(***************************************************************************)
(* run() of the oracle classes, and the life of one algorithm instance of  *)
(* any class: construction followed by any number of calls of run().       *)
(***************************************************************************)
\* the largest number of distinct bit strings one Simon job reports
MaxKeys == 2

\* the lists of at most m distinct elements of S, at least one
DistinctLists(S, m) ==
    {E \in UNION {[1..len -> S] : len \in 1..m} :
        \A i, j \in DOMAIN E : i # j => E[i] # E[j]}

\* BernsteinVazirani.run(): the job fails, or a is read from the most frequent
\* measurement and b = self.f(0)
bv_run ==
    /\ cls = "BernsteinVazirani"
    /\ pc \in {"ready", "ran"}
    /\ \/ ret' = -1
       \/ \E a \in 0..(Pow2(n) - 1) : ret' = <<a, f[0]>>
    /\ pc' = "ran"
    /\ UNCHANGED <<cls, n, f, uf, circuit, U_f, x, b, solverVars, frames>>
    /\ UNCHANGED <<zf, z0, Z_f, gi, iteration, max_iterations, time_taken, jobs, log, fcalls>>

\* DeutschJozsa.run(): one shot on the simulator; 1 when the measurement is all
\* zeros, 0 otherwise
dj_run ==
    /\ cls = "DeutschJozsa"
    /\ pc \in {"ready", "ran"}
    /\ \E m \in 0..(Pow2(n) - 1) : ret' = IF m = 0 THEN 1 ELSE 0
    /\ pc' = "ran"
    /\ UNCHANGED <<cls, n, f, uf, circuit, U_f, x, b, solverVars, frames>>
    /\ UNCHANGED <<zf, z0, Z_f, gi, iteration, max_iterations, time_taken, jobs, log, fcalls>>

\* Simon.run(): the job fails, or the distinct measured strings are the equations
\* handed to simon_eqns_solver
simon_run ==
    /\ cls = "Simon"
    /\ pc \in {"ready", "ran"}
    /\ \/ ret' = -1
       \/ \E equations \in DistinctLists(0..(Pow2(n) - 1), MaxKeys) :
              ret' = simon_eqns_solver(equations, n)
    /\ pc' = "ran"
    /\ UNCHANGED <<cls, n, f, uf, circuit, U_f, x, b, solverVars, frames>>
    /\ UNCHANGED <<zf, z0, Z_f, gi, iteration, max_iterations, time_taken, jobs, log, fcalls>>

InitInstances == InitOracle \/ InitGrover

NextInstances ==
    \/ NextOracle
    \/ NextGrover
    \/ bv_run
    \/ dj_run
    \/ simon_run

SpecInstances == InitInstances /\ [][NextInstances]_vars

\* the positions of the gates of the given name in the circuit
Gates(name) == {i \in DOMAIN circuit : circuit[i][1] = name}

\* C15: within one instance the cache field (uf, zf, z0) is assigned once, from
\* None to a matrix, and no later step - a further gate application or run() -
\* changes it; in Grover every one of the k applications of G appends the one
\* cached Z_f and the one cached Z_0, and f is evaluated exactly 2^n times for
\* Z_f whatever k is.
C15_CacheBuiltOnce ==
    /\ [][/\ uf # None => uf' = uf
          /\ zf # None => zf' = zf
          /\ z0 # None => z0' = z0]_vars
    /\ []((cls # "Grover" /\ pc \in {"construct_end", "ready", "ran"}) => uf # None)
    /\ [](cls = "Grover" =>
            /\ fcalls <= Pow2(n)
            /\ \A i \in Gates("zf") : circuit[i][2] = zf
            /\ \A i \in Gates("z0") : circuit[i][2] = z0
            /\ pc \in {"g_measure", "g_ready", "g_run", "g_returned"} =>
                  /\ zf # None
                  /\ z0 # None
                  /\ fcalls = Pow2(n)
                  /\ Cardinality(Gates("zf")) = grover_k(n)
                  /\ Cardinality(Gates("z0")) = grover_k(n))

\* a Grover instance whose G was applied twice has been run again after a return
C15_Witness ==
    /\ cls = "Grover"
    /\ n = 3
    /\ pc = "g_returned"
    /\ log # {}
    /\ gi = 2
    /\ Cardinality(Gates("zf")) = 2
    /\ fcalls = 8

(***************************************************************************)
(* Construction with any n >= 0: the constructors store n without testing  *)
(* it, so a caller may pass n = 0.                                         *)
(***************************************************************************)
InitOracleAnyN ==
    /\ pc = "construct"
    /\ cls \in SingleBit \cup {"Simon"}
    /\ n \in 0..MaxN
    /\ f \in (IF cls \in SingleBit THEN SingleBitTables(n) ELSE SimonTables(n))
    /\ uf = None
    /\ circuit = None
    /\ U_f = None
    /\ x = 0
    /\ b = 0
    /\ eqns = <<>>
    /\ ti = 0
    /\ result = None
    /\ NoGrover
    /\ NoFrames

SpecOracleAnyN == InitOracleAnyN /\ [][NextOracle]_vars

\* C16 as stated: oracle synthesis with n < 1 fails fast: no matrix is allocated,
\* filled or stored.
C16_FailsFast == n < 1 => (U_f = None /\ uf = None)

\* with n = 0 a 2 x 2 matrix has been built and stored as the oracle of a
\* Bernstein-Vazirani instance
C16_Witness ==
    /\ cls = "BernsteinVazirani"
    /\ n = 0
    /\ pc = "ready"
    /\ uf # None
    /\ uf_size = 2
    /\ uf[0][f[0]] = 1
    /\ uf[1][1 - f[0]] = 1

(***************************************************************************)
(* The bit-list solver of simon_eqns_solver.py.  Equations and candidates  *)
(* are lists of bits, most significant first.                              *)
(***************************************************************************)
\* the largest n of the bit-list solver
BitMaxN == 2

\* the largest number of bit-list equations
MaxBitEqns == 3

RECURSIVE weighted_sum(_, _)
\* the loop of arr_to_int from index i on: res += arr[i] * (2 ** i)
weighted_sum(arr, i) ==
    IF i >= Len(arr) THEN 0 ELSE arr[i + 1] * Pow2(i) + weighted_sum(arr, i + 1)

\* faulty conversion: the list is not reversed
arr_to_int_noreverse(arr) == weighted_sum(arr, 0)

\* arr_to_int(arr): arr.reverse(), then the weighted sum
arr_to_int(arr) == weighted_sum(Reversed(arr), 0)

RECURSIVE np_dot(_, _)
\* np.dot(e, tgt) of two lists of equal length
np_dot(e, tgt) ==
    IF e = <<>> THEN 0 ELSE Head(e) * Head(tgt) + np_dot(Tail(e), Tail(tgt))

RECURSIVE bit_check_eqns_from(_, _, _)
\* the loop of simon_check_eqns (bit lists) from position i on
bit_check_eqns_from(E, tgt, i) ==
    IF i > Len(E) THEN TRUE
    ELSE IF np_dot(E[i], tgt) % 2 # 0 THEN FALSE
    ELSE bit_check_eqns_from(E, tgt, i + 1)

\* simon_check_eqns(eqns, tgt) of simon_eqns_solver.py
bit_check_eqns(E, tgt) == bit_check_eqns_from(E, tgt, 1)

RECURSIVE extend_all(_)
\* one round of findall_tgts: seq + [0] and seq + [1] for every seq, in order
extend_all(seqs) ==
    IF seqs = <<>> THEN <<>>
    ELSE <<Append(Head(seqs), 0), Append(Head(seqs), 1)>> \o extend_all(Tail(seqs))

RECURSIVE findall_tgts(_)
\* findall_tgts(n): n rounds starting from [[]]
findall_tgts(k) == IF k = 0 THEN <<<<>>>> ELSE extend_all(findall_tgts(k - 1))

\* tgts[1:] of the bit-list solver
bit_candidates(k) == Tail(findall_tgts(k))

\* the lists of at most MaxBitEqns equations of k bits
BitLists(k) == UNION {[1..len -> [1..k -> {0, 1}]] : len \in 0..MaxBitEqns}

\* simon_eqns_solver(eqns, n) of simon_eqns_solver.py has been called
InitBitSolver ==
    /\ pc = "bit_solver"
    /\ cls = "none"
    /\ n \in 1..BitMaxN
    /\ eqns \in BitLists(n)
    /\ ti = 0
    /\ result = None
    /\ f = None
    /\ uf = None
    /\ circuit = None
    /\ U_f = None
    /\ x = 0
    /\ b = 0
    /\ NoGrover
    /\ NoFrames

\* tgts = findall_tgts(n); the loop over tgts[1:] is entered, or left at once when
\* the slice is empty
bit_solver_begin ==
    /\ pc = "bit_solver"
    /\ IF Len(bit_candidates(n)) = 0
       THEN /\ result' = arr_to_int(<<0, 0, 0>>)
            /\ pc' = "bit_returned"
            /\ UNCHANGED ti
       ELSE /\ ti' = 1
            /\ pc' = "bit_loop"
            /\ UNCHANGED result
    /\ UNCHANGED <<eqns, n>>
    /\ UNCHANGED <<cls, f, uf, circuit, U_f, x, b, groverVars, frames>>

\* one iteration of "for t in tgts[1:]": arr_to_int(t) is returned when t passes
\* the check; after the last candidate arr_to_int([0, 0, 0]) is returned
bit_solver_step ==
    /\ pc = "bit_loop"
    /\ IF bit_check_eqns(eqns, bit_candidates(n)[ti])
       THEN /\ result' = arr_to_int(bit_candidates(n)[ti])
            /\ pc' = "bit_returned"
            /\ UNCHANGED ti
       ELSE IF ti < Len(bit_candidates(n))
       THEN /\ ti' = ti + 1
            /\ UNCHANGED <<result, pc>>
       ELSE /\ result' = arr_to_int(<<0, 0, 0>>)
            /\ pc' = "bit_returned"
            /\ UNCHANGED ti
    /\ UNCHANGED <<eqns, n>>
    /\ UNCHANGED <<cls, f, uf, circuit, U_f, x, b, groverVars, frames>>

NextBitSolver ==
    \/ bit_solver_begin
    \/ bit_solver_step

SpecBitSolver == InitBitSolver /\ [][NextBitSolver]_vars

RECURSIVE BitsValue(_)
\* the integer a list of bits denotes, most significant bit first
BitsValue(bits) ==
    IF bits = <<>> THEN 0
    ELSE 2 * BitsValue(SubSeq(bits, 1, Len(bits) - 1)) + bits[Len(bits)]

\* the integer equations that correspond to a list of bit lists
AsIntegers(E) == [i \in DOMAIN E |-> BitsValue(E[i])]

\* the malfunctioning case of the module's self-test
BitExample == <<<<0, 1>>, <<0, 1>>, <<0, 0>>>>

\* C18: findall_tgts(n) lists all 2^n bit lists in ascending integer order, and the
\* bit-list solver returns what the integer solver of simon.py returns on the
\* corresponding integers, the sentinel 0 included; the self-test's equations
\* [[0,1],[0,1],[0,0]] with n = 2 give 2.
C18_SolversAgree ==
    cls = "none" /\ pc \in {"bit_solver", "bit_loop", "bit_returned"} =>
        /\ Len(findall_tgts(n)) = Pow2(n)
        /\ \A i \in 1..Pow2(n) :
              Len(findall_tgts(n)[i]) = n /\ arr_to_int(findall_tgts(n)[i]) = i - 1
        /\ pc = "bit_returned" =>
              /\ result = simon_eqns_solver(AsIntegers(eqns), n)
              /\ (n = 2 /\ eqns = BitExample) => result = 2

\* the bit-list solver has returned 2 on the self-test's equations
C18_Witness ==
    /\ pc = "bit_returned"
    /\ n = 2
    /\ eqns = BitExample
    /\ result = 2
    /\ ti = 2

\* the bit-list solver has returned the sentinel: no candidate fits
C18_SentinelReached ==
    /\ pc = "bit_returned"
    /\ n = 2
    /\ result = 0
    /\ eqns = <<<<0, 1>>, <<1, 0>>>>

(***************************************************************************)
(* Uf_gate of pq_dj.py: the oracle matrix built by a case split on f(x),   *)
(* with the indices formed as binary strings.                              *)
(***************************************************************************)
\* the largest n of Uf_gate
GateMaxN == 3

\* bin(k): the prefix "0b" and the binary digits of k, most significant first
py_bin(k) == [prefix |-> "0b", digits |-> Bin(k)]

\* s + '0' or s + '1': one more digit at the end of the string
plus_digit(str, d) == [str EXCEPT !.digits = Append(str.digits, d)]

RECURSIVE digits_value(_)
\* the value of a string of binary digits, most significant first
digits_value(ds) ==
    IF ds = <<>> THEN 0
    ELSE 2 * digits_value(SubSeq(ds, 1, Len(ds) - 1)) + ds[Len(ds)]

\* int(s, 2): the prefix "0b" is accepted and skipped
int_base2(str) == digits_value(str.digits)

\* faulty test: the indices are kept when f(x) is 1
keeps_helper_one(fx) == fx = 1

\* if fx == 0: the helper indices are kept; else they are swapped
keeps_helper(fx) == fx = 0

\* x0 = bin(x) + '0'
x0(xx) == plus_digit(py_bin(xx), 0)

\* x1 = bin(x) + '1'
x1(xx) == plus_digit(py_bin(xx), 1)

\* h0 after the case split
h0(xx, fx) == IF keeps_helper(fx) THEN x0(xx) ELSE x1(xx)

\* h1 after the case split
h1(xx, fx) == IF keeps_helper(fx) THEN x1(xx) ELSE x0(xx)

\* Uf_gate(f, n) has been called
InitUfGate ==
    /\ pc = "gate"
    /\ cls = "pq_dj"
    /\ n \in 1..GateMaxN
    /\ f \in SingleBitTables(n)
    /\ uf = None
    /\ circuit = None
    /\ U_f = None
    /\ x = 0
    /\ b = 0
    /\ eqns = <<>>
    /\ ti = 0
    /\ result = None
    /\ NoGrover
    /\ NoFrames

\* size = 2**(n+1); uf = np.zeros((size, size), dtype=int)
uf_gate_begin ==
    /\ pc = "gate"
    /\ uf' = Zeros(Pow2(n + 1))
    /\ x' = 0
    /\ pc' = "gate_loop"
    /\ UNCHANGED <<cls, n, f, circuit, U_f, b, solverVars, groverVars, frames>>

\* one iteration of "for x in range (2**n)": both entries of x are written
uf_gate_step ==
    /\ pc = "gate_loop"
    /\ LET first == [uf EXCEPT ![int_base2(h0(x, f[x]))][int_base2(x0(x))] = 1]
       IN  uf' = [first EXCEPT ![int_base2(h1(x, f[x]))][int_base2(x1(x))] = 1]
    /\ IF x + 1 < Pow2(n)
       THEN /\ x' = x + 1
            /\ UNCHANGED pc
       ELSE /\ pc' = "gate_defined"
            /\ UNCHANGED x
    /\ UNCHANGED <<cls, n, f, circuit, U_f, b, solverVars, groverVars, frames>>

\* uf_def = DefGate("Uf", uf); the definition and its constructor are returned
uf_gate_return ==
    /\ pc = "gate_defined"
    /\ result' = <<"Uf", uf>>
    /\ pc' = "gate_returned"
    /\ UNCHANGED <<cls, n, f, uf, circuit, U_f, x, b, eqns, ti, groverVars, frames>>

NextUfGate ==
    \/ uf_gate_begin
    \/ uf_gate_step
    \/ uf_gate_return

SpecUfGate == InitUfGate /\ [][NextUfGate]_vars

\* the matrix of the XOR-mask construction: 1 at row (x << 1) ^ b, column
\* (x << 1) ^ (f(x) ^ b) for every x and b, 0 elsewhere
XorMask(ff, k) ==
    [r \in 0..(Pow2(k + 1) - 1) |->
        [c \in 0..(Pow2(k + 1) - 1) |->
            IF \E xx \in 0..(Pow2(k) - 1), bb \in {0, 1} :
                   r = bv_row(xx, bb) /\ c = bv_col(xx, bb, ff[xx])
            THEN 1 ELSE 0]]

\* C19: for every n >= 1 and every f: [0,2^n) -> {0,1} the matrix Uf_gate returns
\* (helper indices swapped when f(x) = 1, kept when f(x) = 0) is exactly the
\* matrix of the XOR-mask construction.
C19_CaseSplitIsXorMask ==
    (cls = "pq_dj" /\ pc \in {"gate_defined", "gate_returned"}) => uf = XorMask(f, n)

\* Uf_gate has returned a matrix with a swapped and a kept pair of entries
C19_Witness ==
    /\ cls = "pq_dj"
    /\ pc = "gate_returned"
    /\ n = 2
    /\ f[1] = 1
    /\ f[2] = 0
    /\ result[2][3][2] = 1
    /\ result[2][2][3] = 1
    /\ result[2][4][4] = 1
    /\ result[2][5][5] = 1

(***************************************************************************)
(* Concurrent invocations of build_uf (simon_test.py) and of               *)
(* simon_eqns_solver (simon.py).  Every invocation has a frame holding its *)
(* arguments and locals; a step of the system is one step of one           *)
(* invocation, so the invocations interleave at every loop iteration.      *)
(***************************************************************************)
\* the largest number of concurrent invocations
MaxInvocations == 2

\* the largest n of a concurrent invocation
ConcMaxN == 1

\* the fn_io lists given to build_uf: simon_fn for s = 0 and for s = 2^k - 1
ConcTables(k) == {[a \in 0..(Pow2(k) - 1) |-> simon_fn(a, s)] : s \in {0, Pow2(k) - 1}}

\* the equation lists given to the solver
ConcEqns(k) == {<<>>, <<1, Pow2(k) - 1>>}

\* the frame of an invocation at its call
NewFrame(fn, k, arg) ==
    [fn |-> fn, n |-> k, arg |-> arg, pc |-> "call", x |-> 0, b |-> 0, U |-> None,
     ti |-> 0, result |-> None]

\* the frames of the calls that can be made
Calls ==
    UNION {{NewFrame("build_uf", k, tab) : tab \in ConcTables(k)}
           \cup {NewFrame("simon_eqns_solver", k, E) : E \in ConcEqns(k)} :
              k \in 1..ConcMaxN}

\* faulty allocation: every invocation fills one module-level matrix
matrix_owner_shared(i) == 1

\* U = np.zeros(...): the matrix of invocation i is a local of invocation i
matrix_owner(i) == i

\* row = (x << n) ^ b
build_uf_row(fr) == Xor(Shl(fr.x, fr.n), fr.b)

\* fout = b ^ fx; col = (x << n) ^ fout
build_uf_col(fr) == Xor(Shl(fr.x, fr.n), Xor(fr.b, fr.arg[fr.x]))

\* the frames after one step of invocation i of build_uf: the allocation, one
\* iteration of the inner loop, or the return of the gate definition
build_uf_next(fs, i) ==
    LET fr == fs[i]
        o == matrix_owner(i)
    IN  IF fr.pc = "call"
        THEN [[fs EXCEPT ![o].U = Zeros(Pow2(2 * fr.n))] EXCEPT
                 ![i].pc = "loop", ![i].x = 0, ![i].b = 0]
        ELSE IF fr.pc = "loop"
        THEN [[fs EXCEPT ![o].U[build_uf_row(fr)][build_uf_col(fr)] = 1] EXCEPT
                 ![i].b = IF fr.b + 1 < Pow2(fr.n) THEN fr.b + 1 ELSE 0,
                 ![i].x = IF fr.b + 1 < Pow2(fr.n) THEN fr.x ELSE fr.x + 1,
                 ![i].pc = IF fr.b + 1 < Pow2(fr.n) \/ (fr.x + 1) \in DOMAIN fr.arg
                           THEN "loop" ELSE "defined"]
        ELSE [fs EXCEPT ![i].result = <<"U-F", fs[o].U>>, ![i].pc = "done"]

\* the frames after one step of invocation i of simon_eqns_solver: the candidate
\* list, or one iteration of the loop over tgts[1:]
solver_next(fs, i) ==
    LET fr == fs[i]
        cs == candidates(fr.n)
    IN  IF fr.pc = "call"
        THEN IF Len(cs) = 0
             THEN [fs EXCEPT ![i].result = 0, ![i].pc = "done"]
             ELSE [fs EXCEPT ![i].ti = 1, ![i].pc = "loop"]
        ELSE IF simon_check_eqns(fr.arg, cs[fr.ti])
        THEN [fs EXCEPT ![i].result = cs[fr.ti], ![i].pc = "done"]
        ELSE IF fr.ti < Len(cs)
        THEN [fs EXCEPT ![i].ti = fr.ti + 1]
        ELSE [fs EXCEPT ![i].result = 0, ![i].pc = "done"]

\* one step of invocation i
frames_next(fs, i) ==
    IF fs[i].fn = "build_uf" THEN build_uf_next(fs, i) ELSE solver_next(fs, i)

\* between 1 and MaxInvocations calls have been made, none has taken a step
InitConcurrent ==
    /\ pc = "concurrent"
    /\ cls = "none"
    /\ frames \in UNION {[1..k -> Calls] : k \in 1..MaxInvocations}
    /\ n = 0
    /\ f = None
    /\ uf = None
    /\ circuit = None
    /\ U_f = None
    /\ x = 0
    /\ b = 0
    /\ eqns = <<>>
    /\ ti = 0
    /\ result = None
    /\ NoGrover

\* an invocation of build_uf takes a step
build_uf_step ==
    /\ pc = "concurrent"
    /\ \E i \in DOMAIN frames :
          /\ frames[i].fn = "build_uf"
          /\ frames[i].pc # "done"
          /\ frames' = build_uf_next(frames, i)
    /\ UNCHANGED <<pc, cls, n, f, uf, circuit, U_f, x, b, solverVars, groverVars>>

\* an invocation of simon_eqns_solver takes a step
solver_invocation_step ==
    /\ pc = "concurrent"
    /\ \E i \in DOMAIN frames :
          /\ frames[i].fn = "simon_eqns_solver"
          /\ frames[i].pc # "done"
          /\ frames' = solver_next(frames, i)
    /\ UNCHANGED <<pc, cls, n, f, uf, circuit, U_f, x, b, solverVars, groverVars>>

NextConcurrent ==
    \/ build_uf_step
    \/ solver_invocation_step

SpecConcurrent == InitConcurrent /\ [][NextConcurrent]_vars

RECURSIVE RunAlone(_)
\* what the invocation in the one-frame system fs returns when it runs alone
RunAlone(fs) == IF fs[1].pc = "done" THEN fs[1].result ELSE RunAlone(frames_next(fs, 1))

\* the result of the call that frame fr belongs to, run alone
Alone(fr) == RunAlone(<<NewFrame(fr.fn, fr.n, fr.arg)>>)

\* C17: however the steps of the invocations of build_uf and of the solver
\* interleave, a step of one invocation changes no other invocation's frame and
\* no invocation's arguments, and every invocation that has returned has returned
\* what the same call returns when it runs alone.
C17_InterleavingSafe ==
    /\ [](pc = "concurrent" =>
            \A i \in DOMAIN frames :
                frames[i].pc = "done" => frames[i].result = Alone(frames[i]))
    /\ [][pc = "concurrent" =>
            /\ \A i \in DOMAIN frames :
                  /\ frames'[i].fn = frames[i].fn
                  /\ frames'[i].n = frames[i].n
                  /\ frames'[i].arg = frames[i].arg
            /\ \A i, j \in DOMAIN frames :
                  (i # j /\ frames'[i] # frames[i]) => frames'[j] = frames[j]]_vars

\* two invocations of build_uf on different tables have both returned, each with
\* its own matrix
C17_Witness ==
    /\ pc = "concurrent"
    /\ Len(frames) = 2
    /\ frames[1].fn = "build_uf"
    /\ frames[2].fn = "build_uf"
    /\ frames[1].arg # frames[2].arg
    /\ frames[1].pc = "done"
    /\ frames[2].pc = "done"
    /\ frames[1].result # frames[2].result

(***************************************************************************)
(* build_simon of simon_test.py (oracle from build_uf) and of              *)
(* simon_test_custom_uf.py (oracle from hand-written gates).  The matrix   *)
(* of build_uf is kept as its size and the positions of its ones.          *)
(***************************************************************************)
\* the largest n given to build_simon
MaxBuildN == 9

\* the ceiling of "if n > 8"
qubit_ceiling == 8

\* the two modules that define build_simon
BuildModules == {"simon_test", "simon_test_custom_uf"}

\* create_simon_f3(): (ind + 6) % 8 for ind in range(4), then 7, 6, 1, 0
create_simon_f3 == [a \in 0..7 |-> IF a < 4 THEN (a + 6) % 8 ELSE <<7, 6, 1, 0>>[a - 3]]

\* the fn_io lists given to build_simon
BuildTables(k) == ConcTables(k) \cup (IF k = 3 THEN {create_simon_f3} ELSE {})

\* build_uf(n, fn_io): a 2^(2n) x 2^(2n) matrix of zeros with a one at (row, col)
\* for every x of fn_io and every b in range(2**n)
build_uf(k, fn_io) ==
    [size |-> Pow2(2 * k),
     ones |-> {<<build_uf_row([x |-> xx, n |-> k, b |-> bb, arg |-> fn_io]),
                 build_uf_col([x |-> xx, n |-> k, b |-> bb, arg |-> fn_io])>> :
                  xx \in DOMAIN fn_io, bb \in 0..(Pow2(k) - 1)}]

\* the gates add_custom_uf appends
add_custom_uf ==
    <<<<"CNOT", 2, 5>>, <<"X", 5>>, <<"CNOT", 1, 2>>, <<"CNOT", 2, 4>>, <<"CNOT", 1, 2>>,
      <<"CCNOT", 1, 2, 3>>, <<"X", 3>>>>

\* faulty test: the ceiling is compared with the 2n qubits of the circuit
too_many_total(k) == 2 * k > qubit_ceiling

\* if n > 8
too_many(k) == k > qubit_ceiling

\* build_simon has been called
InitBuild ==
    /\ pc = "build_simon"
    /\ cls \in BuildModules
    /\ n \in 0..MaxBuildN
    /\ f \in (IF cls = "simon_test" THEN BuildTables(n) ELSE {None})
    /\ uf = None
    /\ circuit = None
    /\ U_f = None
    /\ x = 0
    /\ b = 0
    /\ eqns = <<>>
    /\ ti = 0
    /\ result = None
    /\ NoGrover
    /\ NoFrames

\* p = Program()
build_simon_begin ==
    /\ pc = "build_simon"
    /\ circuit' = <<>>
    /\ pc' = "ceiling"
    /\ UNCHANGED <<cls, n, f, uf, U_f, x, b, solverVars, groverVars, frames>>

\* if n > 8: raise ValueError("Too many qubits!"); otherwise the first loop of
\* Hadamards is entered, or skipped when range(n) is empty
build_simon_ceiling ==
    /\ pc = "ceiling"
    /\ IF too_many(n)
       THEN /\ result' = <<"ValueError", "Too many qubits!">>
            /\ pc' = "raised"
       ELSE /\ pc' = IF n > 0 THEN "h_first" ELSE "oracle"
            /\ UNCHANGED result
    /\ x' = 0
    /\ UNCHANGED <<cls, n, f, uf, circuit, U_f, b, eqns, ti, groverVars, frames>>

\* one iteration of the first "for i in range(n): p += H(i)"
build_simon_h_first ==
    /\ pc = "h_first"
    /\ circuit' = Append(circuit, <<"H", x>>)
    /\ IF x + 1 < n
       THEN /\ x' = x + 1
            /\ UNCHANGED pc
       ELSE /\ x' = 0
            /\ pc' = "oracle"
    /\ UNCHANGED <<cls, n, f, uf, U_f, b, solverVars, groverVars, frames>>

\* simon_test: Uf_defn = build_uf(n, fn_io)
build_simon_build_uf ==
    /\ pc = "oracle"
    /\ cls = "simon_test"
    /\ U_f' = build_uf(n, f)
    /\ pc' = "uf_defined"
    /\ UNCHANGED <<cls, n, f, uf, circuit, x, b, solverVars, groverVars, frames>>

\* simon_test: p += Uf_defn; p += Uf_cst(*[i for i in range(2*n)])
build_simon_add_uf ==
    /\ pc = "uf_defined"
    /\ circuit' = circuit \o <<<<"DEFGATE", "U-F", U_f>>, <<"U-F", Range(2 * n)>>>>
    /\ x' = 0
    /\ pc' = IF n > 0 THEN "h_last" ELSE "return"
    /\ UNCHANGED <<cls, n, f, uf, U_f, b, solverVars, groverVars, frames>>

\* simon_test_custom_uf: p = add_custom_uf(p)
build_simon_custom_uf ==
    /\ pc = "oracle"
    /\ cls = "simon_test_custom_uf"
    /\ circuit' = circuit \o add_custom_uf
    /\ x' = 0
    /\ pc' = IF n > 0 THEN "h_last" ELSE "return"
    /\ UNCHANGED <<cls, n, f, uf, U_f, b, solverVars, groverVars, frames>>

\* one iteration of the last "for i in range(n): p += H(i)"
build_simon_h_last ==
    /\ pc = "h_last"
    /\ circuit' = Append(circuit, <<"H", x>>)
    /\ IF x + 1 < n
       THEN /\ x' = x + 1
            /\ UNCHANGED pc
       ELSE /\ x' = 0
            /\ pc' = "return"
    /\ UNCHANGED <<cls, n, f, uf, U_f, b, solverVars, groverVars, frames>>

\* return p
build_simon_return ==
    /\ pc = "return"
    /\ result' = circuit
    /\ pc' = "built"
    /\ UNCHANGED <<cls, n, f, uf, circuit, U_f, x, b, eqns, ti, groverVars, frames>>

NextBuild ==
    \/ build_simon_begin
    \/ build_simon_ceiling
    \/ build_simon_h_first
    \/ build_simon_build_uf
    \/ build_simon_add_uf
    \/ build_simon_custom_uf
    \/ build_simon_h_last
    \/ build_simon_return

SpecBuild == InitBuild /\ [][NextBuild]_vars

\* the dense matrix of the stepwise build_uf has its ones exactly at sparse.ones
DenseAgrees(dense, sparse) ==
    /\ DOMAIN dense = 0..(sparse.size - 1)
    /\ \A r, c \in DOMAIN dense : dense[r][c] = 1 <=> <<r, c>> \in sparse.ones

\* C21: build_simon with n > 8 raises ValueError straight after creating the empty
\* program: build_uf is never called, no matrix is allocated and no gate is added;
\* with n <= 8 it never raises and goes on to the Hadamards and the oracle, which in
\* simon_test is the 2^(2n) x 2^(2n) matrix of build_uf.
C21_CeilingBeforeWork ==
    /\ [](cls \in BuildModules =>
            /\ n > 8 => (pc \in {"build_simon", "ceiling", "raised"} /\ U_f = None
                         /\ circuit = <<>>)
            /\ n <= 8 => pc # "raised"
            /\ (cls = "simon_test" /\ pc \in {"uf_defined", "h_last", "return", "built"}) =>
                  /\ U_f # None
                  /\ U_f.size = Pow2(2 * n)
                  /\ Cardinality(U_f.ones) = Pow2(2 * n)
                  /\ n <= 2 => DenseAgrees(Alone(NewFrame("build_uf", n, f))[2], U_f))
    /\ [][(cls \in BuildModules /\ pc = "ceiling") =>
            IF n > 8
            THEN pc' = "raised" /\ result' = <<"ValueError", "Too many qubits!">>
            ELSE pc' \in {"h_first", "oracle"} /\ result' = None]_vars
    /\ [][(cls = "simon_test" /\ pc = "oracle") =>
            (pc' = "uf_defined" /\ U_f' # None)]_vars

\* build_simon(9, fn_io) has raised ValueError with nothing built
C21_Witness ==
    /\ cls = "simon_test"
    /\ n = 9
    /\ pc = "raised"
    /\ result[1] = "ValueError"
    /\ U_f = None
    /\ circuit = <<>>

\* build_simon(8, fn_io) has returned a program holding the 65536 x 65536 oracle
C21_BuiltAtCeiling ==
    /\ cls = "simon_test"
    /\ n = 8
    /\ pc = "built"
    /\ U_f # None
    /\ U_f.size = 65536
    /\ Len(result) = 18

====
